---------------------------- MODULE Spec2Model ----------------------------
(***************************************************************************)
(* State-machine model of the WhatsApp real-time voice translation         *)
(* service: the speech-to-text language detector, the audio processing     *)
(* pipeline, the WhatsApp webhook message handlers with the per-user       *)
(* preferences they read, and the Bull-backed translation queue.           *)
(*                                                                         *)
(* Confidences are percentages (0.8 is 80).  A JavaScript string is a      *)
(* sequence of one-character strings where the code takes it apart         *)
(* (join / split / trim), and a TLA+ string where it is only compared.     *)
(***************************************************************************)
EXTENDS Integers, Sequences, FiniteSets, TLC

VARIABLES
    d_pc,            \* transcribeWithLanguageDetection: "idle" | "loop" | "done" | "failed"
    d_i,             \* index of the next entry of commonLanguages to try
    bestResult,      \* <<>> (null) or <<result>>
    bestConfidence,  \* let bestConfidence
    sttLog,          \* every transcribeAudio call so far: [lang, out]
    d_ret,           \* <<>> or <<result>> returned by the detection
    p_pc,            \* processAudioTranslation: "idle" | "hint" | "detect" | "translate" | "tts" | "done" | "failed"
    p_target,        \* its targetLanguage argument
    p_source,        \* its sourceLanguage variable ("" is null)
    mtLog,           \* every translateText call of the run: [to, from, ok]
    ttsLog,          \* every synthesizeText call of the run: [lang, ok]
    p_ret,           \* <<>>, or <<result>> when resolved, or <<error>> when rejected
    prefs,           \* Redis: user -> the hash at user:<id>:preferences
    h_pc,            \* webhook message handler: "idle" | "t_translate" | "t_send" | "t_voice"
                     \*   | "a_stt" | "a_translate" | "a_tts" | "a_send" | "a_voice" | "catch" | "done"
    h_kind,          \* the message being handled: "" | "command" | "text" | "audio"
    h_user,          \* recipientId
    h_targets,       \* const targetLanguages
    h_mode,          \* const responseMode
    h_k,             \* index of the loop the handler is in
    h_results,       \* const results
    sent,            \* what WhatsApp delivered to the user for this message
    q_state,         \* job id -> "absent" | "waiting" | "active" | "delayed" | "completed" | "failed"
    q_name,          \* job id -> the job's name, which is also its queue ("" while absent)
    q_runs,          \* job id -> how many times the processor has been started for it
    q_errors,        \* job id -> the errors its attempts ended in, oldest first
    q_returnvalue,   \* job id -> job.returnvalue ("" while there is none)
    q_out,           \* job id -> the WebSocket messages sent to the client about it
    q_wait,          \* queue -> its waiting jobs, oldest first
    q_addFailed,     \* an add() has thrown and the request was answered with 'error'
    req_pc,          \* POST /webhook request -> "idle" | "translate" | "synthesize" | "done" | "failed"
    req_k,           \* request -> index of the target language whose call is awaited
    audio,           \* the audioBuffer argument: its length (Null before any call)
    p_hint,          \* the sourceLanguage argument as the caller passed it ("" is null)
    v_config,        \* config.whatsapp.webhookVerifyToken
    v_query,         \* <<>> or <<req.query>> of the last GET /webhook
    v_res,           \* <<>> or <<the response to it>>
    s_call,          \* <<>> or <<the last call of a UserPreferencesService method>>
    s_ret,           \* <<>> or <<how that call settled>>
    h_body,          \* message.text.body of the message being handled
    post_res,        \* <<>> or <<the response to the POST request being handled>>
    isRecording,     \* AudioRecorder.isRecording
    stream,          \* AudioRecorder.stream: 0 for null, or the number of a MediaStream
    mediaRecorder,   \* AudioRecorder.mediaRecorder: 0 for null, or the number of its stream
    liveStreams,     \* the MediaStreams whose tracks have not been stopped
    activeRecorders, \* the MediaRecorders that are recording
    held,            \* the record button is held down
    pendingRequests, \* the getUserMedia calls that have not settled
    presses,         \* the presses of the record button so far
    st_pc,           \* getQueueStats: 0 before the call, else the number of the next count read
    st_start,        \* the jobs that were in the queues when the call began
    st_reads,        \* the jobs each count read so far has counted
    st_ret           \* <<>> while the call runs, else how it settled

detectVars == <<d_pc, d_i, bestResult, bestConfidence, sttLog, d_ret>>
pipeVars == <<p_pc, p_target, p_source, mtLog, ttsLog, p_ret>>

hookVars == <<prefs, h_pc, h_kind, h_user, h_targets, h_mode, h_k, h_results, sent>>

queueVars == <<q_state, q_name, q_runs, q_errors, q_returnvalue, q_out, q_wait, q_addFailed>>

reqVars == <<req_pc, req_k>>

inputVars == <<audio, p_hint>>

verifyVars == <<v_config, v_query, v_res>>

svcVars == <<s_call, s_ret>>

msgVars == <<h_body>>

postVars == <<post_res>>

recVars == <<isRecording, stream, mediaRecorder, liveStreams, activeRecorders, held, pendingRequests, presses>>

statVars == <<st_pc, st_start, st_reads, st_ret>>

vars == <<detectVars, pipeVars, hookVars, queueVars, reqVars, inputVars, verifyVars, svcVars, msgVars, postVars, recVars, statVars>>

\* What an action of one component leaves alone.
notDetect == <<pipeVars, hookVars, queueVars, reqVars, inputVars, verifyVars, svcVars, msgVars, postVars, recVars, statVars>>
notPipe == <<d_pc, d_i, bestResult, bestConfidence, d_ret, hookVars, queueVars, reqVars, inputVars, verifyVars, svcVars, msgVars, postVars, recVars, statVars>>
notHook == <<detectVars, p_pc, p_target, p_source, p_ret, queueVars, reqVars, inputVars, verifyVars, svcVars, msgVars, postVars, recVars, statVars>>
notSpeech == <<hookVars, queueVars, reqVars, verifyVars, svcVars, msgVars, postVars, recVars, statVars>>
notQueue == <<detectVars, pipeVars, hookVars, reqVars, inputVars, verifyVars, svcVars, msgVars, postVars, recVars, statVars>>
notReq == <<detectVars, pipeVars, hookVars, queueVars, inputVars, verifyVars, svcVars, msgVars, postVars, recVars, statVars>>
notVerify == <<detectVars, pipeVars, hookVars, queueVars, reqVars, inputVars, svcVars, msgVars, postVars, recVars, statVars>>
notPrefs == <<detectVars, pipeVars, h_pc, h_kind, h_user, h_targets, h_mode, h_k, h_results, sent, queueVars, reqVars, inputVars, verifyVars, msgVars, postVars, recVars, statVars>>
notReceive == <<detectVars, p_pc, p_target, p_source, p_ret, queueVars, reqVars, inputVars, verifyVars, svcVars, recVars, statVars>>
notRec == <<detectVars, pipeVars, hookVars, queueVars, reqVars, inputVars, verifyVars, svcVars, msgVars, postVars, statVars>>
notStat == <<detectVars, pipeVars, hookVars, queueVars, reqVars, inputVars, verifyVars, svcVars, msgVars, postVars, recVars>>

(***************************************************************************)
(* services/google/speech-to-text.js                                       *)
(***************************************************************************)

\* The lengths of the audio buffers given to the service: empty and not.
AudioLengths == {0, 1}

\* const commonLanguages = [...]
commonLanguages == <<"en-US", "es-ES", "fr-FR", "de-DE", "hi-IN", "ar-SA", "pt-BR">>

\* The confidence of the first alternative as the recognizer reports it, in
\* percent; 0 is the recognizer's "not set".
EngineConfidences == {0, 50, 80, 90}

\* What one recognize() call can do: throw, or answer with a confidence.
Err == [ok |-> FALSE, confidence |-> 0]
Answer(c) == [ok |-> TRUE, confidence |-> c]
EngineOutcomes == {Err} \cup {Answer(c) : c \in EngineConfidences}

\* JavaScript null, for a confidence.
Null == 0 - 1

\* confidence: response.results[0]?.alternatives[0]?.confidence || null
OrNull(c) == IF c = 0 THEN Null ELSE c

\* The number a relational comparison sees: null compares as 0.
ToNumber(c) == IF c = Null THEN 0 ELSE c

\* The value transcribeAudio resolves with when the recognizer answers `out`.
TranscribeResult(lang, out) ==
    [languageCode |-> lang, confidence |-> OrNull(out.confidence), detectedLanguage |-> "undefined"]

\* if (result.confidence > bestConfidence)
BetterThan(conf, best) == ToNumber(conf) > best

\* if (bestConfidence > 0.8)
EarlyExit_Late(best) == best > 90
EarlyExit(best) == best > 80

\* One iteration whose catch leaves the loop instead of continuing.
DetectTry_AbortOnError ==
    /\ d_pc = "loop"
    /\ d_i <= Len(commonLanguages)
    /\ \E out \in EngineOutcomes :
         LET lang == commonLanguages[d_i]
             res  == TranscribeResult(lang, out)
             take == out.ok /\ BetterThan(res.confidence, bestConfidence)
             best == IF take THEN ToNumber(res.confidence) ELSE bestConfidence
         IN  /\ sttLog' = Append(sttLog, [lang |-> lang, out |-> out])
             /\ bestConfidence' = best
             /\ bestResult' = IF take
                                THEN <<[res EXCEPT !.detectedLanguage = lang]>>
                                ELSE bestResult
             /\ d_i' = IF ~out.ok \/ EarlyExit(best)
                         THEN Len(commonLanguages) + 1
                         ELSE d_i + 1
    /\ UNCHANGED <<d_pc, d_ret>>
    /\ UNCHANGED notDetect

\* One iteration of `for (const lang of commonLanguages)`: the awaited
\* transcribeAudio call and what the body does with its outcome.
DetectTry ==
    /\ d_pc = "loop"
    /\ d_i <= Len(commonLanguages)
    /\ \E out \in EngineOutcomes :
         LET lang == commonLanguages[d_i]
             res  == TranscribeResult(lang, out)
             take == out.ok /\ BetterThan(res.confidence, bestConfidence)
             best == IF take THEN ToNumber(res.confidence) ELSE bestConfidence
         IN  /\ sttLog' = Append(sttLog, [lang |-> lang, out |-> out])
             /\ bestConfidence' = best
             /\ bestResult' = IF take
                                THEN <<[res EXCEPT !.detectedLanguage = lang]>>
                                ELSE bestResult
             /\ d_i' = IF out.ok /\ EarlyExit(best)
                         THEN Len(commonLanguages) + 1
                         ELSE d_i + 1
    /\ UNCHANGED <<d_pc, d_ret>>
    /\ UNCHANGED notDetect

\* DetectEnd without the English fallback: no result is an error at once.
DetectEnd_NoFallback ==
    /\ d_pc = "loop"
    /\ d_i > Len(commonLanguages)
    /\ d_ret' = bestResult
    /\ d_pc' = IF bestResult # <<>> THEN "done" ELSE "failed"
    /\ UNCHANGED <<d_i, bestResult, bestConfidence, sttLog>>
    /\ UNCHANGED notDetect

\* After the loop: return bestResult, or fall back to one more
\* transcribeAudio(audioBuffer, 'en-US') whose error is rethrown.
DetectEnd ==
    /\ d_pc = "loop"
    /\ d_i > Len(commonLanguages)
    /\ IF bestResult # <<>>
         THEN /\ d_ret' = bestResult
              /\ d_pc' = "done"
              /\ UNCHANGED sttLog
         ELSE \E out \in EngineOutcomes :
                /\ sttLog' = Append(sttLog, [lang |-> "en-US", out |-> out])
                /\ IF ~out.ok
                     THEN d_ret' = <<>> /\ d_pc' = "failed"
                     ELSE d_ret' = <<TranscribeResult("en-US", out)>> /\ d_pc' = "done"
    /\ UNCHANGED <<d_i, bestResult, bestConfidence>>
    /\ UNCHANGED notDetect

\* The state a call of transcribeWithLanguageDetection starts in.
DetectEntry(pc) ==
    /\ d_pc = pc
    /\ d_i = 1
    /\ bestResult = <<>>
    /\ bestConfidence = 0
    /\ d_ret = <<>>

(***************************************************************************)
(* utils/helpers/audio-processing-pipeline.js                              *)
(***************************************************************************)

\* The short codes callers pass; "xx" stands for a code bcp47Map lacks.
ShortCodes == {"en", "es", "fr", "xx"}

\* String.prototype.toUpperCase on a short code.
ToUpperCase(code) ==
    CASE code = "en" -> "EN" [] code = "es" -> "ES" [] code = "fr" -> "FR"
      [] code = "de" -> "DE" [] code = "xx" -> "XX" [] OTHER -> code

bcp47Map == [en |-> "en-US", es |-> "es-ES", fr |-> "fr-FR", de |-> "de-DE",
             it |-> "it-IT", pt |-> "pt-BR", ru |-> "ru-RU", ar |-> "ar-XA",
             hi |-> "hi-IN", zh |-> "zh-CN", ja |-> "ja-JP", ko |-> "ko-KR",
             tr |-> "tr-TR"]

\* return bcp47Map[languageCode] || `${languageCode}-${languageCode.toUpperCase()}`
convertToBCP47(languageCode) ==
    IF languageCode \in DOMAIN bcp47Map
      THEN bcp47Map[languageCode]
      ELSE languageCode \o "-" \o ToUpperCase(languageCode)

\* languageCode.split('-')[0] of a locale code the detector can return.
SplitDash0(locale) ==
    CASE locale = "en-US" -> "en" [] locale = "es-ES" -> "es" [] locale = "fr-FR" -> "fr"
      [] locale = "de-DE" -> "de" [] locale = "hi-IN" -> "hi" [] locale = "ar-SA" -> "ar"
      [] locale = "pt-BR" -> "pt"

\* throw new Error(`Audio Processing Pipeline Error: ${error.message}`)
PipelineError(cause) == [error |-> "Audio Processing Pipeline Error", cause |-> cause]

\* The object processAudioTranslation returns.
PipelineResult(source, target) ==
    [error |-> "", cause |-> "", language |-> source, targetLanguage |-> target]

\* Entry, and step 1 (preprocessForSTT hands the buffer back): the
\* arguments are the audio buffer, the target language and an optional
\* source language.
PStart ==
    /\ p_pc = "idle"
    /\ \E buffer \in AudioLengths, target \in {"es", "fr"}, source \in {""} \cup ShortCodes :
         /\ audio' = buffer
         /\ p_target' = target
         /\ p_hint' = source
         /\ p_source' = source
         /\ IF source # ""
              THEN p_pc' = "hint" /\ UNCHANGED d_pc
              ELSE p_pc' = "detect" /\ d_pc' = "loop"
    /\ UNCHANGED <<mtLog, ttsLog, p_ret, d_i, bestResult, bestConfidence, sttLog, d_ret>>
    /\ UNCHANGED notSpeech

\* PTranscribeHint passing the source language on as it came.
PTranscribeHint_Unconverted ==
    /\ p_pc = "hint"
    /\ \E out \in EngineOutcomes :
         /\ sttLog' = Append(sttLog, [lang |-> p_source, out |-> out])
         /\ IF out.ok
              THEN p_pc' = "translate" /\ UNCHANGED p_ret
              ELSE p_pc' = "failed" /\ p_ret' = <<PipelineError("STT Service Error")>>
    /\ UNCHANGED <<p_target, p_source, mtLog, ttsLog>>
    /\ UNCHANGED notPipe

\* Step 2 with a source language: one transcribeAudio call with its locale.
PTranscribeHint ==
    /\ p_pc = "hint"
    /\ \E out \in EngineOutcomes :
         /\ sttLog' = Append(sttLog, [lang |-> convertToBCP47(p_source), out |-> out])
         /\ IF out.ok
              THEN p_pc' = "translate" /\ UNCHANGED p_ret
              ELSE p_pc' = "failed" /\ p_ret' = <<PipelineError("STT Service Error")>>
    /\ UNCHANGED <<p_target, p_source, mtLog, ttsLog>>
    /\ UNCHANGED notPipe

\* Step 2 going on to the translation whatever the detection did.
PDetected_Continue ==
    /\ p_pc = "detect"
    /\ d_pc \in {"done", "failed"}
    /\ p_source' = IF d_pc = "done" /\ d_ret[1].detectedLanguage # "undefined"
                      THEN d_ret[1].detectedLanguage
                      ELSE "en"
    /\ p_pc' = "translate"
    /\ UNCHANGED <<p_target, p_ret, mtLog, ttsLog, sttLog>>
    /\ UNCHANGED notPipe

\* Step 2 without one: the awaited transcribeWithLanguageDetection settles.
PDetected ==
    /\ p_pc = "detect"
    /\ d_pc \in {"done", "failed"}
    /\ IF d_pc = "done"
         THEN /\ p_source' = IF d_ret[1].detectedLanguage # "undefined"
                                THEN d_ret[1].detectedLanguage
                                ELSE SplitDash0(d_ret[1].languageCode)
              /\ p_pc' = "translate"
              /\ UNCHANGED p_ret
         ELSE /\ p_pc' = "failed"
              /\ p_ret' = <<PipelineError("STT Service Error")>>
              /\ UNCHANGED p_source
    /\ UNCHANGED <<p_target, mtLog, ttsLog, sttLog>>
    /\ UNCHANGED notPipe

\* PTranslate with the failure kept in the result instead of thrown.
PTranslate_Captured ==
    /\ p_pc = "translate"
    /\ \E ok \in BOOLEAN :
         mtLog' = Append(mtLog, [to |-> p_target, from |-> p_source, ok |-> ok])
    /\ p_pc' = "tts"
    /\ UNCHANGED <<p_target, p_source, ttsLog, p_ret, sttLog>>
    /\ UNCHANGED notPipe

\* Step 3: translateText(transcribedText, targetLanguage, sourceLanguage).
PTranslate ==
    /\ p_pc = "translate"
    /\ \E ok \in BOOLEAN :
         /\ mtLog' = Append(mtLog, [to |-> p_target, from |-> p_source, ok |-> ok])
         /\ IF ok
              THEN p_pc' = "tts" /\ UNCHANGED p_ret
              ELSE p_pc' = "failed" /\ p_ret' = <<PipelineError("Translation Service Error")>>
    /\ UNCHANGED <<p_target, p_source, ttsLog, sttLog>>
    /\ UNCHANGED notPipe

\* Step 4 returning what it has when the synthesis fails.
PSynthesize_Partial ==
    /\ p_pc = "tts"
    /\ \E ok \in BOOLEAN :
         ttsLog' = Append(ttsLog, [lang |-> convertToBCP47(p_target), ok |-> ok])
    /\ p_pc' = "done"
    /\ p_ret' = <<PipelineResult(p_source, p_target)>>
    /\ UNCHANGED <<p_target, p_source, mtLog, sttLog>>
    /\ UNCHANGED notPipe

\* Step 4: synthesizeText(translatedText, convertToBCP47(targetLanguage)),
\* then the result object is returned.
PSynthesize ==
    /\ p_pc = "tts"
    /\ \E ok \in BOOLEAN :
         /\ ttsLog' = Append(ttsLog, [lang |-> convertToBCP47(p_target), ok |-> ok])
         /\ IF ok
              THEN p_pc' = "done" /\ p_ret' = <<PipelineResult(p_source, p_target)>>
              ELSE p_pc' = "failed" /\ p_ret' = <<PipelineError("TTS Service Error")>>
    /\ UNCHANGED <<p_target, p_source, mtLog, sttLog>>
    /\ UNCHANGED notPipe

\* No call has been made yet.
NoInput == audio = Null /\ p_hint = ""

PipeIdle ==
    /\ p_pc = "idle"
    /\ p_target = ""
    /\ p_source = ""
    /\ mtLog = <<>>
    /\ ttsLog = <<>>
    /\ p_ret = <<>>

(***************************************************************************)
(* JavaScript strings the code takes apart.  A string is a sequence of     *)
(* chunks; a chunk is a separator character or a run of characters with    *)
(* no separator in it.                                                     *)
(***************************************************************************)

\* String.prototype.length of a chunk.
ChunkLen ==
    ("es" :> 2) @@ ("fr" :> 2) @@ ("de" :> 2) @@ ("en" :> 2) @@ ("x" :> 1) @@
    ("," :> 1) @@ (" " :> 1) @@ ("!lang" :> 5) @@ ("!LANG" :> 5) @@
    ("!response" :> 9) @@ ("!srclang" :> 8) @@ ("!help" :> 5) @@ ("!foo" :> 4) @@
    ("text" :> 4) @@ ("voice" :> 5) @@ ("both" :> 4) @@ ("loud" :> 4) @@
    ("hello" :> 5) @@ ("auto" :> 4)

RECURSIVE StrLen(_)
StrLen(s) == IF s = <<>> THEN 0 ELSE ChunkLen[Head(s)] + StrLen(Tail(s))

\* String.prototype.split(sep), sep one character.
RECURSIVE SplitFrom(_, _, _)
SplitFrom(s, sep, cur) ==
    IF s = <<>> THEN <<cur>>
    ELSE IF Head(s) = sep THEN <<cur>> \o SplitFrom(Tail(s), sep, <<>>)
    ELSE SplitFrom(Tail(s), sep, Append(cur, Head(s)))

Split(s, sep) == SplitFrom(s, sep, <<>>)

\* Array.prototype.join(sep).
RECURSIVE Join(_, _)
Join(list, sep) ==
    IF list = <<>> THEN <<>>
    ELSE IF Len(list) = 1 THEN list[1]
    ELSE list[1] \o sep \o Join(Tail(list), sep)

\* String.prototype.trim().
RECURSIVE TrimStart(_)
TrimStart(s) == IF s # <<>> /\ Head(s) = " " THEN TrimStart(Tail(s)) ELSE s

RECURSIVE TrimEnd(_)
TrimEnd(s) ==
    IF s # <<>> /\ s[Len(s)] = " " THEN TrimEnd(SubSeq(s, 1, Len(s) - 1)) ELSE s

Trim(s) == TrimEnd(TrimStart(s))

\* String.prototype.toLowerCase().
LowerChunk(c) == IF c = "!LANG" THEN "!lang" ELSE c
ToLowerCase(s) == [k \in 1..Len(s) |-> LowerChunk(s[k])]

\* text.startsWith('!')
StartsWithBang(s) ==
    s # <<>> /\ s[1] \in {"!lang", "!LANG", "!response", "!srclang", "!help", "!foo"}

(***************************************************************************)
(* services/user-preferences.js                                            *)
(***************************************************************************)

Users == {"u1", "u2"}

\* The users whose messages reach the webhook.
Senders == {"u1"}

\* JavaScript values a preference field can hold.
Undef == [type |-> "undefined", v |-> <<>>]
S(str) == [type |-> "string", v |-> str]
Arr(list) == [type |-> "array", v |-> list]

\* if (x), x || y, x ? a : b
Truthy(val) == val.type = "array" \/ (val.type = "string" /\ val.v # <<>>)

\* What hgetall gives for a key that does not exist.
EmptyHash == [sourceLanguage |-> Undef, targetLanguages |-> Undef, responseMode |-> Undef]

DefaultPreferences ==
    [sourceLanguage |-> S(<<"auto">>), targetLanguages |-> Arr(<<<<"en">>>>),
     responseMode |-> S(<<"text">>)]

\* What a Redis round trip of a setter can do: both commands succeed, hset
\* throws, or hset succeeds and expire throws.
RedisOutcomes == {"ok", "hset_fails", "expire_fails"}
Written(redis) == redis \in {"ok", "expire_fails"}

getPreferences(hash, readOk) ==
    IF ~readOk \/ hash = EmptyHash THEN DefaultPreferences ELSE hash

\* setSourceLanguage replacing the whole hash by its one field.
setSourceLanguage_Overwrite(hash, language, redis) ==
    [hash |-> IF Written(redis) THEN [EmptyHash EXCEPT !.sourceLanguage = S(language)] ELSE hash,
     ret |-> redis = "ok"]

\* The setters: .hash is the stored hash afterwards, .ret the value returned.
setSourceLanguage(hash, language, redis) ==
    [hash |-> IF Written(redis) THEN [hash EXCEPT !.sourceLanguage = S(language)] ELSE hash,
     ret |-> redis = "ok"]

\* setTargetLanguages storing the codes joined with ', ' as the replies do.
setTargetLanguages_Spaced(hash, languages, redis) ==
    [hash |-> IF Written(redis)
                THEN [hash EXCEPT !.targetLanguages = S(Join(languages, <<",", " ">>))]
                ELSE hash,
     ret |-> redis = "ok"]

setTargetLanguages(hash, languages, redis) ==
    [hash |-> IF Written(redis)
                THEN [hash EXCEPT !.targetLanguages = S(Join(languages, <<",">>))]
                ELSE hash,
     ret |-> redis = "ok"]

ResponseModes == {<<"text">>, <<"voice">>, <<"both">>}

setResponseMode(hash, mode, redis) ==
    IF mode \notin ResponseModes
      THEN [hash |-> hash, ret |-> FALSE]
      ELSE [hash |-> IF Written(redis) THEN [hash EXCEPT !.responseMode = S(mode)] ELSE hash,
            ret |-> redis = "ok"]

\* The key's 7-day time to live runs out.
PrefsExpire ==
    /\ \E u \in Users :
         /\ prefs[u] # EmptyHash
         /\ prefs' = [prefs EXCEPT ![u] = EmptyHash]
    /\ UNCHANGED <<h_pc, h_kind, h_user, h_targets, h_mode, h_k, h_results, sent>>
    /\ UNCHANGED <<mtLog, ttsLog, sttLog>>
    /\ UNCHANGED notHook

(***************************************************************************)
(* routes/webhook.js (the version with user preferences)                   *)
(***************************************************************************)

\* The argument lists of the !lang messages users send: one code, several,
\* a repeated code, and tokens that are not two characters long.
ArgLists ==
    {<<"es">>, <<"fr", "es">>, <<"es", "fr", "de">>, <<"es", "es">>,
     <<"x">>, <<"es", "x", "fr">>}

\* The text of "!lang a1 a2 ..." and the other command texts.
Words(cmd, args) == Join(<<<<cmd>>>> \o [k \in 1..Len(args) |-> <<args[k]>>], <<" ">>)

CommandBodies ==
    {Words("!lang", args) : args \in ArgLists}
      \cup {<<"!lang">>, Words("!LANG", <<"es">>)}
      \cup {Words("!response", <<m>>) : m \in {"text", "voice", "both", "loud"}}
      \cup {<<"!response">>, <<"!srclang">>, Words("!srclang", <<"en">>), Words("!srclang", <<"x">>)}
      \cup {<<"!help">>, <<"!foo">>}

TextBodies == {<<"hello">>}

Msg(kind, langs) == [kind |-> kind, langs |-> langs]

\* parts.slice(1) taken whole.
TwoLetterCodes_Unfiltered(args) == args
\* parts.slice(1).filter(lang => lang.length === 2)
TwoLetterCodes(args) == SelectSeq(args, LAMBDA t : StrLen(t) = 2)

\* handleCommand up to its reply: the hash afterwards, the reply it sends,
\* or throws = TRUE when it throws before sending any.
CommandEffect(hash, body, redis, readOk) ==
    LET parts == Split(body, " ")
        cmd   == ToLowerCase(parts[1])
        args  == Tail(parts)
        cur   == getPreferences(hash, readOk)
        same(reply) == [hash |-> hash, reply |-> reply, throws |-> FALSE]
    IN  CASE cmd = <<"!lang">> ->
               IF Len(parts) < 2
                 THEN IF cur.targetLanguages.type = "array"
                        THEN same(Msg("current_settings", cur.targetLanguages.v))
                        ELSE [hash |-> hash, reply |-> Msg("none", <<>>), throws |-> TRUE]
                 ELSE LET languages == TwoLetterCodes(args)
                          set == setTargetLanguages(hash, languages, redis)
                      IN  IF languages = <<>>
                            THEN same(Msg("invalid_codes", <<>>))
                            ELSE [hash |-> set.hash,
                                  reply |-> IF set.ret
                                              THEN Msg("targets_set", <<Join(languages, <<",", " ">>)>>)
                                              ELSE Msg("set_error", <<>>),
                                  throws |-> FALSE]
          [] cmd = <<"!srclang">> ->
               IF Len(parts) < 2
                 THEN same(Msg("srclang_usage", <<>>))
                 ELSE LET sourceLang == ToLowerCase(parts[2])
                          set == setSourceLanguage(hash, sourceLang, redis)
                      IN  IF StrLen(sourceLang) # 2
                            THEN same(Msg("invalid_code", <<>>))
                            ELSE [hash |-> set.hash,
                                  reply |-> IF set.ret
                                              THEN Msg("source_set", <<sourceLang>>)
                                              ELSE Msg("set_error", <<>>),
                                  throws |-> FALSE]
          [] cmd = <<"!response">> ->
               IF Len(parts) < 2
                 THEN same(Msg("current_mode", <<cur.responseMode.v>>))
                 ELSE LET responseMode == ToLowerCase(parts[2])
                          set == setResponseMode(hash, responseMode, redis)
                      IN  IF responseMode \notin ResponseModes
                            THEN same(Msg("invalid_mode", <<>>))
                            ELSE [hash |-> set.hash,
                                  reply |-> IF set.ret
                                              THEN Msg("mode_set", <<responseMode>>)
                                              ELSE Msg("set_error", <<>>),
                                  throws |-> FALSE]
          [] cmd = <<"!help">> -> same(Msg("help", <<>>))
          [] OTHER -> same(Msg("unknown_command", <<cmd>>))

\* The handlers' catch blocks: one apology is sent, and a failure to send it
\* is swallowed.
Apology == Msg("apology", <<>>)

\* A message arrives while none is being handled.
CanReceive == h_pc \in {"idle", "done"}

\* processMessage for a text that starts with '!': handleCommand, whole.
HandleCommand ==
    /\ CanReceive
    /\ \E u \in Senders, body \in CommandBodies, redis \in RedisOutcomes,
          readOk \in BOOLEAN, sendOk \in BOOLEAN, sorryOk \in BOOLEAN :
         LET eff == CommandEffect(prefs[u], body, redis, readOk)
         IN  /\ StartsWithBang(body)
             /\ prefs' = [prefs EXCEPT ![u] = eff.hash]
             /\ h_user' = u
             /\ h_body' = body
             /\ sent' = IF ~eff.throws /\ sendOk THEN <<eff.reply>>
                        ELSE IF sorryOk THEN <<Apology>> ELSE <<>>
    /\ h_kind' = "command"
    /\ h_pc' = "done"
    /\ h_targets' = <<>>
    /\ h_mode' = <<>>
    /\ h_k' = 1
    /\ h_results' = <<>>
    /\ mtLog' = <<>>
    /\ ttsLog' = <<>>
    /\ UNCHANGED sttLog
    /\ post_res' = <<>>
    /\ UNCHANGED notReceive

\* const targetLanguages = userPrefs.targetLanguages ? userPrefs.targetLanguages.split(',') : ['en']
\* .ok is FALSE when .split is not a function.
TargetLanguagesOf(userPrefs) ==
    IF Truthy(userPrefs.targetLanguages)
      THEN IF userPrefs.targetLanguages.type = "string"
             THEN [ok |-> TRUE, v |-> Split(userPrefs.targetLanguages.v, ",")]
             ELSE [ok |-> FALSE, v |-> <<>>]
      ELSE [ok |-> TRUE, v |-> <<<<"en">>>>]

\* const responseMode = userPrefs.responseMode || 'text'
ResponseModeOf(userPrefs) ==
    IF Truthy(userPrefs.responseMode) THEN userPrefs.responseMode.v ELSE <<"text">>

WantsVoice_Always(mode) == TRUE
\* if (responseMode === 'voice' || responseMode === 'both')
WantsVoice(mode) == mode = <<"voice">> \/ mode = <<"both">>

\* convertToBCP47 of a language taken from the preferences.
LocaleOf(lang) ==
    IF Len(lang) = 1 /\ lang[1] \in DOMAIN bcp47Map
      THEN <<bcp47Map[lang[1]]>>
      ELSE lang \o <<"-">> \o [k \in 1..Len(lang) |-> ToUpperCase(lang[k])]

\* handleTextMessage up to the loop: the preferences are read.
ReceiveText ==
    /\ CanReceive
    /\ \E u \in Senders, body \in TextBodies, readOk \in BOOLEAN :
         LET userPrefs == getPreferences(prefs[u], readOk)
             tl == TargetLanguagesOf(userPrefs)
         IN  /\ ~StartsWithBang(body)
             /\ h_body' = body
             /\ h_user' = u
             /\ h_targets' = tl.v
             /\ h_mode' = ResponseModeOf(userPrefs)
             /\ h_pc' = IF tl.ok THEN "t_translate" ELSE "catch"
    /\ h_kind' = "text"
    /\ h_k' = 1
    /\ h_results' = <<>>
    /\ sent' = <<>>
    /\ mtLog' = <<>>
    /\ ttsLog' = <<>>
    /\ UNCHANGED <<prefs, sttLog>>
    /\ post_res' = <<>>
    /\ UNCHANGED notReceive

\* One iteration of `for (const lang of targetLanguages)`:
\* translateWithSourceDetection(text, lang.trim()), whose error leaves the
\* loop for the handler's catch.
TextTranslate ==
    /\ h_pc = "t_translate"
    /\ \E ok \in BOOLEAN :
         LET lang == Trim(h_targets[h_k])
         IN  /\ mtLog' = Append(mtLog, [to |-> lang, from |-> "detected", ok |-> ok])
             /\ IF ok
                  THEN /\ h_results' = Append(h_results, [language |-> lang, ok |-> TRUE])
                       /\ IF h_k = Len(h_targets)
                            THEN h_pc' = "t_send" /\ h_k' = 1
                            ELSE h_pc' = "t_translate" /\ h_k' = h_k + 1
                  ELSE /\ h_pc' = "catch"
                       /\ UNCHANGED <<h_results, h_k>>
    /\ UNCHANGED <<prefs, h_kind, h_user, h_targets, h_mode, sent, ttsLog, sttLog>>
    /\ UNCHANGED notHook

\* The one text reply with every translation, then the voice replies if the
\* response mode asks for them.
SendTranslations(nextPc) ==
    /\ \E ok \in BOOLEAN :
         IF ok
           THEN /\ sent' = Append(sent, Msg("translations",
                                 [k \in 1..Len(h_results) |-> h_results[k].language]))
                /\ h_pc' = IF WantsVoice(h_mode) THEN nextPc ELSE "done"
           ELSE /\ h_pc' = "catch"
                /\ UNCHANGED sent
    /\ h_k' = 1
    /\ UNCHANGED <<prefs, h_kind, h_user, h_targets, h_mode, h_results, mtLog, ttsLog, sttLog>>
    /\ UNCHANGED notHook

TextSend == h_pc = "t_send" /\ SendTranslations("t_voice")

\* After a voice reply, or after the notice that took its place.
NextVoice(pc) ==
    IF h_k = Len(h_results) THEN h_pc' = "done" /\ h_k' = h_k
    ELSE h_pc' = pc /\ h_k' = h_k + 1

\* One iteration of the voice loop of handleTextMessage: synthesizeText, then
\* uploadAndSendAudio; an error of either is answered with a text notice,
\* and an error sending the notice reaches the handler's catch.
TextVoice ==
    /\ h_pc = "t_voice"
    /\ \E out \in {"sent", "tts_failed", "upload_failed"}, noticeOk \in BOOLEAN :
         LET item == h_results[h_k]
         IN  /\ ttsLog' = Append(ttsLog, [lang |-> LocaleOf(item.language),
                                          ok |-> out # "tts_failed"])
             /\ IF out = "sent"
                  THEN /\ noticeOk
                       /\ sent' = Append(sent, Msg("voice", <<item.language>>))
                       /\ NextVoice("t_voice")
                  ELSE IF noticeOk
                  THEN /\ sent' = Append(sent, Msg("voice_notice", <<item.language>>))
                       /\ NextVoice("t_voice")
                  ELSE /\ h_pc' = "catch"
                       /\ UNCHANGED <<sent, h_k>>
    /\ UNCHANGED <<prefs, h_kind, h_user, h_targets, h_mode, h_results, mtLog, sttLog>>
    /\ UNCHANGED notHook

\* The catch letting a failed apology through.
HandlerCatch_Rethrow ==
    /\ h_pc = "catch"
    /\ \E ok \in BOOLEAN :
         /\ sent' = IF ok THEN Append(sent, Apology) ELSE sent
         /\ h_pc' = IF ok THEN "done" ELSE "threw"
    /\ UNCHANGED <<prefs, h_kind, h_user, h_targets, h_mode, h_k, h_results, mtLog, ttsLog, sttLog>>
    /\ UNCHANGED notHook

\* catch (error): the apology.
HandlerCatch ==
    /\ h_pc = "catch"
    /\ \E ok \in BOOLEAN : sent' = IF ok THEN Append(sent, Apology) ELSE sent
    /\ h_pc' = "done"
    /\ UNCHANGED <<prefs, h_kind, h_user, h_targets, h_mode, h_k, h_results, mtLog, ttsLog, sttLog>>
    /\ UNCHANGED notHook

\* handleAudioMessage up to the pipeline call: downloadMedia, then the
\* preferences are read.
ReceiveAudio ==
    /\ CanReceive
    /\ \E u \in Senders, downloadOk \in BOOLEAN, readOk \in BOOLEAN :
         LET userPrefs == getPreferences(prefs[u], readOk)
             tl == TargetLanguagesOf(userPrefs)
         IN  /\ h_user' = u
             /\ IF downloadOk
                  THEN /\ h_targets' = [k \in 1..Len(tl.v) |-> Trim(tl.v[k])]
                       /\ h_mode' = ResponseModeOf(userPrefs)
                       /\ h_pc' = IF tl.ok THEN "a_stt" ELSE "catch"
                  ELSE /\ h_targets' = <<>>
                       /\ h_mode' = <<>>
                       /\ h_pc' = "catch"
    /\ h_kind' = "audio"
    /\ h_body' = <<>>
    /\ h_k' = 1
    /\ h_results' = <<>>
    /\ sent' = <<>>
    /\ mtLog' = <<>>
    /\ ttsLog' = <<>>
    /\ UNCHANGED <<prefs, sttLog>>
    /\ post_res' = <<>>
    /\ UNCHANGED notReceive

\* processAudioTranslationMulti(audioBuffer, targetLanguages): one
\* transcription for the message (transcribeWithLanguageDetection, taken as
\* one step here) ...
MultiTranscribe ==
    /\ h_pc = "a_stt"
    /\ \E ok \in BOOLEAN : h_pc' = IF ok THEN "a_translate" ELSE "catch"
    /\ UNCHANGED <<prefs, h_kind, h_user, h_targets, h_mode, h_k, h_results, sent>>
    /\ UNCHANGED <<mtLog, ttsLog, sttLog>>
    /\ UNCHANGED notHook

\* ... then for each target language translateText ...
MultiTranslate ==
    /\ h_pc = "a_translate"
    /\ \E ok \in BOOLEAN :
         /\ mtLog' = Append(mtLog, [to |-> h_targets[h_k], from |-> "detected", ok |-> ok])
         /\ h_pc' = IF ok THEN "a_tts" ELSE "catch"
    /\ UNCHANGED <<prefs, h_kind, h_user, h_targets, h_mode, h_k, h_results, sent>>
    /\ UNCHANGED <<ttsLog, sttLog>>
    /\ UNCHANGED notHook

\* ... and synthesizeText; any error rejects the whole call.
MultiSynthesize ==
    /\ h_pc = "a_tts"
    /\ \E ok \in BOOLEAN :
         /\ ttsLog' = Append(ttsLog, [lang |-> LocaleOf(h_targets[h_k]), ok |-> ok])
         /\ IF ok
              THEN /\ h_results' = Append(h_results, [language |-> h_targets[h_k], ok |-> TRUE])
                   /\ IF h_k = Len(h_targets)
                        THEN h_pc' = "a_send" /\ h_k' = 1
                        ELSE h_pc' = "a_translate" /\ h_k' = h_k + 1
              ELSE /\ h_pc' = "catch"
                   /\ UNCHANGED <<h_results, h_k>>
    /\ UNCHANGED <<prefs, h_kind, h_user, h_targets, h_mode, sent, mtLog, sttLog>>
    /\ UNCHANGED notHook

AudioSend == h_pc = "a_send" /\ SendTranslations("a_voice")

\* One iteration of the voice loop of handleAudioMessage: uploadAndSendAudio
\* of the audio the pipeline made, or the text notice in its place.
AudioVoice ==
    /\ h_pc = "a_voice"
    /\ \E out \in {"sent", "upload_failed"}, noticeOk \in BOOLEAN :
         LET item == h_results[h_k]
         IN  IF out = "sent"
               THEN /\ noticeOk
                    /\ sent' = Append(sent, Msg("voice", <<item.language>>))
                    /\ NextVoice("a_voice")
               ELSE IF noticeOk
               THEN /\ sent' = Append(sent, Msg("voice_notice", <<item.language>>))
                    /\ NextVoice("a_voice")
               ELSE /\ h_pc' = "catch"
                    /\ UNCHANGED <<sent, h_k>>
    /\ UNCHANGED <<prefs, h_kind, h_user, h_targets, h_mode, h_results, mtLog, ttsLog, sttLog>>
    /\ UNCHANGED notHook

\* No message has been received yet.
MsgIdle == h_body = <<>>

HookIdle ==
    /\ prefs = [u \in Users |-> EmptyHash]
    /\ h_pc = "idle"
    /\ h_kind = ""
    /\ h_user = ""
    /\ h_targets = <<>>
    /\ h_mode = <<>>
    /\ h_k = 1
    /\ h_results = <<>>
    /\ sent = <<>>

(***************************************************************************)
(* utils/processing/translation-queue.js and the WebSocket requests of     *)
(* server.js that use it.  The two Bull queues are modelled by Bull's      *)
(* contract for the options the code passes to add().                      *)
(***************************************************************************)

\* The most jobs the clients submit.
MaxJobs == 2

Jobs == 1..MaxJobs

\* The two queues, named by the job name each one processes.
QueueNames == {"translate", "process-audio"}

\* attempts: 3
attempts == 3

\* How an attempt can end in an error: one that a later attempt can get
\* past and one that every attempt will meet again.  The processors and the
\* options of add() draw no such distinction.
ErrorKinds == {"retryable", "non_retryable"}

\* job.id of the next job: Bull counts the jobs up from 1.
NextId == Cardinality({j \in Jobs : q_state[j] # "absent"}) + 1

\* job.attemptsMade
attemptsMade(j) == Len(q_errors[j])

\* The value the processor returns.
ReturnValue(name) == IF name = "translate" THEN "translatedText" ELSE "transcribedText"

WsMsg(type, payload) == [type |-> type, payload |-> payload]

\* Variants that allow one attempt fewer and one attempt more.
NextStateOnFailure_TwoAttempts(made) == IF made < attempts - 1 THEN "delayed" ELSE "failed"
NextStateOnFailure_OneMore(made) == IF made <= attempts THEN "delayed" ELSE "failed"

\* Where a job goes when an attempt has failed and `made` attempts have
\* failed so far: back through the backoff delay while attempts are left.
NextStateOnFailure(made) == IF made < attempts THEN "delayed" ELSE "failed"

\* case 'translation_request' / 'audio_translation_request' up to the
\* acknowledgement: addTranslationJob or addAudioJob, then getQueueStats
\* for the queue-length metric, then 'job_submitted' and the callbacks on
\* job.finished().  When add() throws, 'error' is sent and there is no job;
\* when getQueueStats throws, the job is in the queue but the same catch
\* sends 'error' (which names no job): 'job_submitted' is not sent and
\* nothing listens for the job's end.
AddJob ==
    /\ NextId <= MaxJobs
    /\ \E name \in QueueNames, ok \in BOOLEAN, statsOk \in BOOLEAN :
         IF ok
           THEN /\ q_state' = [q_state EXCEPT ![NextId] = "waiting"]
                /\ q_name' = [q_name EXCEPT ![NextId] = name]
                /\ q_wait' = [q_wait EXCEPT ![name] = Append(@, NextId)]
                /\ q_out' = IF statsOk
                              THEN [q_out EXCEPT ![NextId] = <<WsMsg("job_submitted", "")>>]
                              ELSE q_out
                /\ UNCHANGED q_addFailed
           ELSE /\ statsOk
                /\ q_addFailed' = TRUE
                /\ UNCHANGED <<q_state, q_name, q_wait, q_out>>
    /\ UNCHANGED <<q_runs, q_errors, q_returnvalue>>
    /\ UNCHANGED notQueue

\* The queue's processor (concurrency 1) takes the oldest waiting job.
WorkerPick(name) ==
    /\ q_wait[name] # <<>>
    /\ ~\E j \in Jobs : q_state[j] = "active" /\ q_name[j] = name
    /\ LET j == Head(q_wait[name])
       IN  /\ q_state' = [q_state EXCEPT ![j] = "active"]
           /\ q_runs' = [q_runs EXCEPT ![j] = @ + 1]
    /\ q_wait' = [q_wait EXCEPT ![name] = Tail(@)]
    /\ UNCHANGED <<q_name, q_errors, q_returnvalue, q_out, q_addFailed>>
    /\ UNCHANGED notQueue

\* The processor's promise resolves.
TaskSucceed(name) ==
    /\ \E j \in Jobs :
         /\ q_state[j] = "active"
         /\ q_name[j] = name
         /\ q_state' = [q_state EXCEPT ![j] = "completed"]
         /\ q_returnvalue' = [q_returnvalue EXCEPT ![j] = ReturnValue(name)]
    /\ UNCHANGED <<q_name, q_runs, q_errors, q_wait, q_out, q_addFailed>>
    /\ UNCHANGED notQueue

\* The attempt ends in an error (the timeout of the options among them).
TaskFail(name) ==
    /\ \E j \in Jobs, err \in ErrorKinds :
         /\ q_state[j] = "active"
         /\ q_name[j] = name
         /\ q_errors' = [q_errors EXCEPT ![j] = Append(@, err)]
         /\ q_state' = [q_state EXCEPT ![j] = NextStateOnFailure(attemptsMade(j) + 1)]
    /\ UNCHANGED <<q_name, q_runs, q_returnvalue, q_wait, q_out, q_addFailed>>
    /\ UNCHANGED notQueue

\* backoff: the delay is over and the job waits again, behind the others.
Promote(j) ==
    /\ q_state[j] = "delayed"
    /\ q_state' = [q_state EXCEPT ![j] = "waiting"]
    /\ q_wait' = [q_wait EXCEPT ![q_name[j]] = Append(@, j)]
    /\ UNCHANGED <<q_name, q_runs, q_errors, q_returnvalue, q_out, q_addFailed>>
    /\ UNCHANGED notQueue

\* The request handler got as far as job.finished().then(...).catch(...).
Awaited(j) == q_out[j] # <<>>

\* Whether job.finished() has settled and its callback has run.
Settled(j) == Len(q_out[j]) > 1

\* job.finished().then(...).catch(...): the result or the error is sent to
\* the client.  For an audio job the translation and the synthesis follow
\* first, and their error is sent in place of the result.
Settle(j) ==
    /\ q_state[j] \in {"completed", "failed"}
    /\ Awaited(j)
    /\ ~Settled(j)
    /\ \E afterOk \in BOOLEAN :
         q_out' = [q_out EXCEPT ![j] = Append(@,
             IF q_name[j] = "translate"
               THEN IF q_state[j] = "completed"
                      THEN WsMsg("translation_result", q_returnvalue[j])
                      ELSE WsMsg("translation_error", q_errors[j][Len(q_errors[j])])
               ELSE IF q_state[j] = "failed"
                      THEN WsMsg("audio_translation_error", q_errors[j][Len(q_errors[j])])
                      ELSE IF afterOk
                      THEN WsMsg("audio_translation_result", q_returnvalue[j])
                      ELSE WsMsg("audio_translation_error", "service"))]
    /\ UNCHANGED <<q_state, q_name, q_runs, q_errors, q_returnvalue, q_wait, q_addFailed>>
    /\ UNCHANGED notQueue

QueueIdle ==
    /\ q_state = [j \in Jobs |-> "absent"]
    /\ q_name = [j \in Jobs |-> ""]
    /\ q_runs = [j \in Jobs |-> 0]
    /\ q_errors = [j \in Jobs |-> <<>>]
    /\ q_returnvalue = [j \in Jobs |-> ""]
    /\ q_out = [j \in Jobs |-> <<>>]
    /\ q_wait = [name \in QueueNames |-> <<>>]
    /\ q_addFailed = FALSE

(***************************************************************************)
(* POST /webhook requests handled at the same time: each request runs      *)
(* handleTextMessage for its message, and Express starts a request's       *)
(* handler without waiting for the handlers of earlier requests.           *)
(***************************************************************************)

\* The most requests that are open at once.
MaxRequests == 3

Requests == 1..MaxRequests

\* const targetLanguages of every message.
ReqTargets == <<"es", "fr">>

\* The workers that drain the queues: process() is called once for each
\* queue, with the default concurrency of one.
Workers == Cardinality(QueueNames)

\* The requests with a translateWithSourceDetection or synthesizeText call
\* awaited at the engine.
InFlight == {r \in Requests : req_pc[r] \in {"translate", "synthesize"}}

\* The handler starts and awaits the translation for the first language.
ReqArrive(r) ==
    /\ req_pc[r] = "idle"
    /\ req_pc' = [req_pc EXCEPT ![r] = "translate"]
    /\ req_k' = [req_k EXCEPT ![r] = 1]
    /\ UNCHANGED notReq

\* The awaited translation settles: an error ends the handler in its catch,
\* a result is followed by the call for the next language, and after the
\* last language by the voice loop if the response mode asks for it.
ReqTranslated(r) ==
    /\ req_pc[r] = "translate"
    /\ \E ok \in BOOLEAN, voice \in BOOLEAN :
         IF ~ok
           THEN req_pc' = [req_pc EXCEPT ![r] = "failed"] /\ UNCHANGED req_k
           ELSE IF req_k[r] < Len(ReqTargets)
           THEN req_k' = [req_k EXCEPT ![r] = @ + 1] /\ UNCHANGED req_pc
           ELSE /\ req_pc' = [req_pc EXCEPT ![r] = IF voice THEN "synthesize" ELSE "done"]
                /\ req_k' = [req_k EXCEPT ![r] = 1]
    /\ UNCHANGED notReq

\* The awaited synthesis settles, with a result or an error: the loop goes
\* on to the next language.
ReqSynthesized(r) ==
    /\ req_pc[r] = "synthesize"
    /\ IF req_k[r] < Len(ReqTargets)
         THEN req_k' = [req_k EXCEPT ![r] = @ + 1] /\ UNCHANGED req_pc
         ELSE req_pc' = [req_pc EXCEPT ![r] = "done"] /\ UNCHANGED req_k
    /\ UNCHANGED notReq

ReqIdle ==
    /\ req_pc = [r \in Requests |-> "idle"]
    /\ req_k = [r \in Requests |-> 1]

(***************************************************************************)
(* GET /webhook: the verification endpoint (routes/webhook.js, the same    *)
(* in both versions of the router)                                         *)
(***************************************************************************)

\* What a query parameter can be: absent, given empty, or given with a value.
QueryModes == {Undef, S(<<>>), S(<<"subscribe">>), S(<<"unsubscribe">>)}
QueryTokens == {Undef, S(<<>>), S(<<"secret">>), S(<<"wrong">>)}
QueryChallenges == {Undef, S(<<>>), S(<<"c1">>), S(<<"c2">>)}

\* process.env.WHATSAPP_VOICE_TRANSLATE_VERIFY_TOKEN, set or not.
ConfiguredTokens == {Undef, S(<<"secret">>)}

HttpResponse(status, body) == [status |-> status, body |-> body]

\* The handler with `mode === 'subscribe'` left out.
VerifyResponse_TokenOnly(query, configured) ==
    IF Truthy(query.mode) /\ Truthy(query.token)
      THEN IF query.token = configured
             THEN HttpResponse(200, query.challenge)
             ELSE HttpResponse(403, S(<<"Forbidden: Invalid verification token">>))
      ELSE HttpResponse(400, S(<<"Bad Request: Missing parameters">>))

\* router.get('/', ...)
VerifyResponse(query, configured) ==
    IF Truthy(query.mode) /\ Truthy(query.token)
      THEN IF query.mode = S(<<"subscribe">>) /\ query.token = configured
             THEN HttpResponse(200, query.challenge)
             ELSE HttpResponse(403, S(<<"Forbidden: Invalid verification token">>))
      ELSE HttpResponse(400, S(<<"Bad Request: Missing parameters">>))

\* One GET /webhook request and its response.
GetWebhook ==
    /\ \E mode \in QueryModes, token \in QueryTokens, challenge \in QueryChallenges :
         LET query == [mode |-> mode, token |-> token, challenge |-> challenge]
         IN  /\ v_query' = <<query>>
             /\ v_res' = <<VerifyResponse(query, v_config)>>
    /\ UNCHANGED v_config
    /\ UNCHANGED notVerify

VerifyIdle == v_config = Undef /\ v_query = <<>> /\ v_res = <<>>

(***************************************************************************)
(* Direct calls of the UserPreferencesService methods                      *)
(***************************************************************************)

\* The arguments the callers pass.
SvcLanguageLists ==
    {<<>>, <<<<"es">>>>, <<<<"fr">>, <<"es">>>>, <<<<"es">>, <<"fr">>, <<"de">>>>}
SvcSourceLanguages == {<<"en">>, <<"es">>}
SvcModes == ResponseModes \cup {<<"loud">>}

Call(op, user, arg) == [op |-> op, user |-> user, arg |-> arg]

\* A settled promise: resolved with a value, or rejected with an error.
Resolved(value) == [threw |-> FALSE, value |-> value]
Rejected(error) == [threw |-> TRUE, value |-> error]

\* How a setResponseMode call settles: its catch turns every error, its own
\* 'Invalid response mode' too, into the value false.
SettleResponseMode(mode, ret) == Resolved(ret)

\* await userPreferencesService.setSourceLanguage(userId, language)
SvcSetSourceLanguage ==
    /\ \E u \in Users, language \in SvcSourceLanguages, redis \in RedisOutcomes :
         LET set == setSourceLanguage(prefs[u], language, redis)
         IN  /\ prefs' = [prefs EXCEPT ![u] = set.hash]
             /\ s_call' = <<Call("setSourceLanguage", u, language)>>
             /\ s_ret' = <<Resolved(set.ret)>>
    /\ UNCHANGED <<mtLog, ttsLog, sttLog>>
    /\ UNCHANGED notPrefs

\* await userPreferencesService.setTargetLanguages(userId, languages)
SvcSetTargetLanguages ==
    /\ \E u \in Users, languages \in SvcLanguageLists, redis \in RedisOutcomes :
         LET set == setTargetLanguages(prefs[u], languages, redis)
         IN  /\ prefs' = [prefs EXCEPT ![u] = set.hash]
             /\ s_call' = <<Call("setTargetLanguages", u, languages)>>
             /\ s_ret' = <<Resolved(set.ret)>>
    /\ UNCHANGED <<mtLog, ttsLog, sttLog>>
    /\ UNCHANGED notPrefs

\* await userPreferencesService.setResponseMode(userId, mode)
SvcSetResponseMode ==
    /\ \E u \in Users, mode \in SvcModes, redis \in RedisOutcomes :
         LET set == setResponseMode(prefs[u], mode, redis)
         IN  /\ prefs' = [prefs EXCEPT ![u] = set.hash]
             /\ s_call' = <<Call("setResponseMode", u, mode)>>
             /\ s_ret' = <<SettleResponseMode(mode, set.ret)>>
    /\ UNCHANGED <<mtLog, ttsLog, sttLog>>
    /\ UNCHANGED notPrefs

\* await userPreferencesService.getPreferences(userId); arg tells whether
\* the store could be read.
SvcGetPreferences ==
    /\ \E u \in Users, readOk \in BOOLEAN :
         /\ s_call' = <<Call("getPreferences", u, readOk)>>
         /\ s_ret' = <<Resolved(getPreferences(prefs[u], readOk))>>
    /\ UNCHANGED prefs
    /\ UNCHANGED <<mtLog, ttsLog, sttLog>>
    /\ UNCHANGED notPrefs

\* The key's 7-day time to live runs out between two calls.
SvcExpire ==
    /\ \E u \in Users :
         /\ prefs[u] # EmptyHash
         /\ prefs' = [prefs EXCEPT ![u] = EmptyHash]
         /\ s_call' = <<Call("expire", u, <<>>)>>
    /\ s_ret' = <<>>
    /\ UNCHANGED <<mtLog, ttsLog, sttLog>>
    /\ UNCHANGED notPrefs

SvcIdle == s_call = <<>> /\ s_ret = <<>>

(***************************************************************************)
(* router.post('/'): the request around the handlers                       *)
(***************************************************************************)

\* processMessage for a message of a change without contacts:
\* context.contacts[0] throws before any handler is entered.
ReceiveNoContacts ==
    /\ CanReceive
    /\ h_pc' = "threw"
    /\ h_kind' = "nocontacts"
    /\ h_user' = ""
    /\ h_body' = <<>>
    /\ h_targets' = <<>>
    /\ h_mode' = <<>>
    /\ h_k' = 1
    /\ h_results' = <<>>
    /\ sent' = <<>>
    /\ mtLog' = <<>>
    /\ ttsLog' = <<>>
    /\ post_res' = <<>>
    /\ UNCHANGED <<prefs, sttLog>>
    /\ UNCHANGED notReceive

\* The loops over the messages are over, or processMessage threw: the
\* response of the request.
PostRespond ==
    /\ h_pc \in {"done", "threw"}
    /\ post_res = <<>>
    /\ IF h_pc = "threw"
         THEN /\ post_res' = <<HttpResponse(500, S(<<"Failed to process message">>))>>
              /\ h_pc' = "idle"
         ELSE /\ post_res' = <<HttpResponse(200, S(<<"success">>))>>
              /\ UNCHANGED h_pc
    /\ UNCHANGED <<prefs, h_kind, h_user, h_targets, h_mode, h_k, h_results, sent>>
    /\ UNCHANGED <<mtLog, ttsLog, sttLog, h_body>>
    /\ UNCHANGED notReceive

PostIdle == post_res = <<>>

(***************************************************************************)
(* public/js/audio.js: the recorder of the browser page                    *)
(***************************************************************************)

\* The most presses of the record button.
MaxPresses == 4

\* mousedown / touchstart on the record button: startRecording runs up to
\* its `await navigator.mediaDevices.getUserMedia(...)`.
Press ==
    /\ ~held
    /\ presses < MaxPresses
    /\ held' = TRUE
    /\ presses' = presses + 1
    /\ pendingRequests' = pendingRequests + 1
    /\ UNCHANGED <<isRecording, stream, mediaRecorder, liveStreams, activeRecorders>>
    /\ UNCHANGED notRec

\* stopRecording(): it acts only if (this.isRecording && this.mediaRecorder
\* && this.stream).
StopRecording ==
    IF isRecording /\ mediaRecorder # 0 /\ stream # 0
      THEN /\ activeRecorders' = activeRecorders \ {mediaRecorder}
           /\ liveStreams' = liveStreams \ {stream}
           /\ isRecording' = FALSE
      ELSE UNCHANGED <<activeRecorders, liveStreams, isRecording>>

\* mouseup / touchend anywhere on the page.
Release ==
    /\ held
    /\ held' = FALSE
    /\ StopRecording
    /\ UNCHANGED <<stream, mediaRecorder, pendingRequests, presses>>
    /\ UNCHANGED notRec

\* getUserMedia resolves: startRecording goes on from its await, makes the
\* MediaRecorder, starts it and sets isRecording.
MicrophoneGranted ==
    /\ pendingRequests > 0
    /\ pendingRequests' = pendingRequests - 1
    /\ LET s == presses - pendingRequests + 1
       IN  /\ stream' = s
           /\ mediaRecorder' = s
           /\ liveStreams' = liveStreams \cup {s}
           /\ activeRecorders' = activeRecorders \cup {s}
    /\ isRecording' = TRUE
    /\ UNCHANGED <<held, presses>>
    /\ UNCHANGED notRec

\* getUserMedia rejects: the catch of startRecording.
MicrophoneDenied ==
    /\ pendingRequests > 0
    /\ pendingRequests' = pendingRequests - 1
    /\ UNCHANGED <<isRecording, stream, mediaRecorder, liveStreams, activeRecorders, held, presses>>
    /\ UNCHANGED notRec

\* The constructor.
RecIdle ==
    /\ isRecording = FALSE
    /\ stream = 0
    /\ mediaRecorder = 0
    /\ liveStreams = {}
    /\ activeRecorders = {}
    /\ held = FALSE
    /\ pendingRequests = 0
    /\ presses = 0

(***************************************************************************)
(* getQueueStats (translation-queue.js) while the queues are at work       *)
(***************************************************************************)

CountRead(queue, state) == [queue |-> queue, state |-> state]

\* The count reads of getQueueStats in the order it awaits them.
CountReads ==
    << CountRead("translate", "waiting"), CountRead("translate", "active"),
       CountRead("translate", "completed"), CountRead("translate", "failed"),
       CountRead("process-audio", "waiting"), CountRead("process-audio", "active"),
       CountRead("process-audio", "completed"), CountRead("process-audio", "failed") >>

\* The jobs a count read counts: those of its queue that are in its state
\* at the moment of the read.
Counted(read) == {j \in Jobs : q_name[j] = read.queue /\ q_state[j] = read.state}

\* The object getQueueStats returns.
QueueStats ==
    [i \in 1..Len(st_reads) |-> Cardinality(st_reads[i])]

\* getQueueStats is called.
StatsCall ==
    /\ st_pc = 0
    /\ st_pc' = 1
    /\ st_start' = {j \in Jobs : q_state[j] # "absent"}
    /\ UNCHANGED <<st_reads, st_ret>>
    /\ UNCHANGED notStat

\* One awaited count read settles; a rejected read rejects the call, and
\* the last read is followed by the return.
StatsRead ==
    /\ st_pc \in 1..Len(CountReads)
    /\ st_ret = <<>>
    /\ \E ok \in BOOLEAN :
         IF ok
           THEN /\ st_reads' = Append(st_reads, Counted(CountReads[st_pc]))
                /\ st_pc' = st_pc + 1
                /\ st_ret' = IF st_pc = Len(CountReads) THEN <<"resolved">> ELSE <<>>
           ELSE /\ st_ret' = <<"rejected">>
                /\ UNCHANGED <<st_pc, st_reads>>
    /\ UNCHANGED st_start
    /\ UNCHANGED notStat

StatIdle == st_pc = 0 /\ st_start = {} /\ st_reads = <<>> /\ st_ret = <<>>

(***************************************************************************)
(* Specifications                                                          *)
(***************************************************************************)

\* One call of transcribeWithLanguageDetection.
DetectInit ==
    /\ DetectEntry("loop") /\ sttLog = <<>> /\ PipeIdle /\ HookIdle /\ QueueIdle /\ ReqIdle /\ VerifyIdle /\ SvcIdle /\ MsgIdle /\ PostIdle /\ RecIdle /\ StatIdle
    /\ audio \in AudioLengths /\ p_hint = ""

DetectNext == DetectTry \/ DetectEnd

SpecDetect == DetectInit /\ [][DetectNext]_vars

\* One call of processAudioTranslation.
PipeInit == DetectEntry("idle") /\ sttLog = <<>> /\ PipeIdle /\ HookIdle /\ QueueIdle /\ ReqIdle /\ NoInput /\ VerifyIdle /\ SvcIdle /\ MsgIdle /\ PostIdle /\ RecIdle /\ StatIdle

PipeNext ==
    \/ PStart
    \/ PTranscribeHint
    \/ DetectTry
    \/ DetectEnd
    \/ PDetected
    \/ PTranslate
    \/ PSynthesize

SpecPipeline == PipeInit /\ [][PipeNext]_vars

\* The webhook handling one message after another.
HookInit == DetectEntry("idle") /\ sttLog = <<>> /\ PipeIdle /\ HookIdle /\ QueueIdle /\ ReqIdle /\ NoInput /\ VerifyIdle /\ SvcIdle /\ MsgIdle /\ PostIdle /\ RecIdle /\ StatIdle

HookNext ==
    \/ HandleCommand
    \/ PrefsExpire
    \/ ReceiveText
    \/ TextTranslate
    \/ TextSend
    \/ TextVoice
    \/ ReceiveAudio
    \/ MultiTranscribe
    \/ MultiTranslate
    \/ MultiSynthesize
    \/ AudioSend
    \/ AudioVoice
    \/ HandlerCatch
    \/ ReceiveNoContacts
    \/ PostRespond

SpecWebhook == HookInit /\ [][HookNext]_vars

\* The queues, their workers and the clients that submit jobs.
QueueInit == DetectEntry("idle") /\ sttLog = <<>> /\ PipeIdle /\ HookIdle /\ QueueIdle /\ ReqIdle /\ NoInput /\ VerifyIdle /\ SvcIdle /\ MsgIdle /\ PostIdle /\ RecIdle /\ StatIdle

QueueNext ==
    \/ AddJob
    \/ \E name \in QueueNames : WorkerPick(name)
    \/ \E name \in QueueNames : TaskSucceed(name)
    \/ \E name \in QueueNames : TaskFail(name)
    \/ \E j \in Jobs : Promote(j)
    \/ \E j \in Jobs : Settle(j)

SpecQueue == QueueInit /\ [][QueueNext]_vars

\* The workers keep polling, an attempt ends (the timeout of the options
\* sees to it), a backoff delay runs out, and a settled promise runs its
\* callback.
QueueFairness ==
    /\ \A name \in QueueNames :
          /\ WF_vars(WorkerPick(name))
          /\ WF_vars(TaskSucceed(name) \/ TaskFail(name))
    /\ \A j \in Jobs : WF_vars(Promote(j)) /\ WF_vars(Settle(j))

FairSpecQueue == SpecQueue /\ QueueFairness

\* Webhook requests arriving while others are being handled.
ReqInit == DetectEntry("idle") /\ sttLog = <<>> /\ PipeIdle /\ HookIdle /\ QueueIdle /\ ReqIdle /\ NoInput /\ VerifyIdle /\ SvcIdle /\ MsgIdle /\ PostIdle /\ RecIdle /\ StatIdle

ReqNext ==
    \/ \E r \in Requests : ReqArrive(r)
    \/ \E r \in Requests : ReqTranslated(r)
    \/ \E r \in Requests : ReqSynthesized(r)

SpecRequests == ReqInit /\ [][ReqNext]_vars

\* Verification requests against a server whose token is configured or not.
VerifyInit ==
    /\ DetectEntry("idle") /\ sttLog = <<>> /\ PipeIdle /\ HookIdle /\ QueueIdle /\ ReqIdle /\ NoInput
    /\ v_config \in ConfiguredTokens /\ v_query = <<>> /\ v_res = <<>>
    /\ SvcIdle /\ MsgIdle /\ PostIdle /\ RecIdle /\ StatIdle

VerifyNext == GetWebhook

SpecVerify == VerifyInit /\ [][VerifyNext]_vars

\* Callers using the preferences service directly.
SvcInit ==
    /\ DetectEntry("idle") /\ sttLog = <<>> /\ PipeIdle /\ HookIdle /\ QueueIdle /\ ReqIdle /\ NoInput
    /\ VerifyIdle /\ SvcIdle /\ MsgIdle /\ PostIdle /\ RecIdle /\ StatIdle

SvcNext ==
    \/ SvcSetSourceLanguage
    \/ SvcSetTargetLanguages
    \/ SvcSetResponseMode
    \/ SvcGetPreferences
    \/ SvcExpire

SpecPrefs == SvcInit /\ [][SvcNext]_vars

\* A user pressing and releasing the record button of the page.
RecInit ==
    /\ DetectEntry("idle") /\ sttLog = <<>> /\ PipeIdle /\ HookIdle /\ QueueIdle /\ ReqIdle /\ NoInput
    /\ VerifyIdle /\ SvcIdle /\ MsgIdle /\ PostIdle /\ RecIdle /\ StatIdle

RecNext ==
    \/ Press
    \/ Release
    \/ MicrophoneGranted
    \/ MicrophoneDenied

SpecRecorder == RecInit /\ [][RecNext]_vars

\* One getQueueStats call while jobs are added and worked on.
StatsInit ==
    /\ DetectEntry("idle") /\ sttLog = <<>> /\ PipeIdle /\ HookIdle /\ QueueIdle /\ ReqIdle /\ NoInput
    /\ VerifyIdle /\ SvcIdle /\ MsgIdle /\ PostIdle /\ RecIdle /\ StatIdle

\* An attempt fails during the observation with an error a retry can get past.
TaskFailRetryable(name) ==
    /\ TaskFail(name)
    /\ \A j \in Jobs : \A i \in 1..Len(q_errors'[j]) : q_errors'[j][i] = "retryable"

StatsNext ==
    \/ AddJob
    \/ \E name \in QueueNames : WorkerPick(name)
    \/ \E name \in QueueNames : TaskSucceed(name)
    \/ \E name \in QueueNames : TaskFailRetryable(name)
    \/ \E j \in Jobs : Promote(j)
    \/ StatsCall
    \/ StatsRead

SpecStats == StatsInit /\ [][StatsNext]_vars

(***************************************************************************)
(* Properties of the language detector                                     *)
(***************************************************************************)

DetectOver == d_pc \in {"done", "failed"}

\* The calls made for the candidates (the loop makes at most one each).
NumCandidates == Len(commonLanguages)
CandidateCalls == SubSeq(sttLog, 1, IF Len(sttLog) < NumCandidates THEN Len(sttLog) ELSE NumCandidates)

FirstCallAtLeast(c) == Len(sttLog) >= 1 /\ sttLog[1].out.ok /\ sttLog[1].out.confidence >= c

NoCandidateExceeds ==
    \A k \in 1..Len(CandidateCalls) :
        ~(CandidateCalls[k].out.ok /\ CandidateCalls[k].out.confidence > 80)

SomeCandidateSucceeded == \E k \in 1..Len(CandidateCalls) : CandidateCalls[k].out.ok

EveryCandidateErrored ==
    /\ Len(sttLog) >= NumCandidates
    /\ \A k \in 1..NumCandidates : ~sttLog[k].out.ok

\* The returned result is candidate call k's, labelled with k's language.
ReturnsCall(k) ==
    /\ d_pc = "done"
    /\ d_ret = <<[languageCode |-> sttLog[k].lang,
                  confidence |-> OrNull(sttLog[k].out.confidence),
                  detectedLanguage |-> sttLog[k].lang]>>

HighestSuccessful(k) ==
    /\ CandidateCalls[k].out.ok
    /\ \A m \in 1..Len(CandidateCalls) :
          CandidateCalls[m].out.ok => CandidateCalls[m].out.confidence <= CandidateCalls[k].out.confidence

\* C1 as stated: when the first-tried candidate ('en-US') comes back with a
\* confidence greater than or equal to 0.8, transcribeAudio is called exactly
\* once in the detection and no further candidate is tried.
C1_AsStated == FirstCallAtLeast(80) => Len(sttLog) = 1

\* C1 amended: when the first-tried candidate ('en-US') comes back with a
\* confidence strictly greater than 0.8, transcribeAudio is called exactly
\* once in the detection, no further candidate is tried, and that result,
\* labelled 'en-US', is what the detection returns.
C1_EarlyExitAboveThreshold ==
    FirstCallAtLeast(81) =>
        /\ Len(sttLog) = 1
        /\ sttLog[1].lang = commonLanguages[1]
        /\ d_pc # "failed"
        /\ d_pc = "done" => ReturnsCall(1)

C1_Witness == d_pc = "done" /\ FirstCallAtLeast(81) /\ Len(sttLog) = 1

\* C2: when the detection is over and no candidate's confidence exceeded 0.8
\* (and at least one candidate succeeded), transcribeAudio was called exactly
\* once per candidate, never more, and the result returned is a successful
\* attempt of highest confidence, labelled with that attempt's language.
C2_AllTriedBestReturned ==
    (DetectOver /\ NoCandidateExceeds /\ SomeCandidateSucceeded) =>
        /\ Len(sttLog) = NumCandidates
        /\ \A k \in 1..NumCandidates : sttLog[k].lang = commonLanguages[k]
        /\ \E k \in 1..NumCandidates : HighestSuccessful(k) /\ ReturnsCall(k)

C3_WitnessRecovered == d_pc = "done" /\ EveryCandidateErrored

(***************************************************************************)
(* Properties of the audio pipeline                                        *)
(***************************************************************************)

PipeOver == p_pc \in {"done", "failed"}

\* Step 2 of the run got a transcription: the explicit-hint call answered, or
\* the detection returned a result.
TranscriptionOk ==
    IF d_pc = "idle"
      THEN Len(sttLog) = 1 /\ sttLog[1].out.ok
      ELSE d_pc = "done"

TranslationFailed == \E k \in 1..Len(mtLog) : ~mtLog[k].ok
SynthesisFailed == \E k \in 1..Len(ttsLog) : ~ttsLog[k].ok

HandlerOver == h_pc = "done"

\* The translation calls of the message that failed.
FailedTranslations == {k \in 1..Len(mtLog) : ~mtLog[k].ok}

\* The text reply that lists the translations, if one was sent.
TranslationReplies == {k \in 1..Len(sent) : sent[k].kind = "translations"}

\* C4: when a text is translated into the user's three target languages
\* [A,B,C] and the only translation call that fails is the one for B, the
\* handler still translates into C, and its reply covers the three languages
\* in order, A and C with their translation: B's failure does not cancel the
\* rest.
C4_PerLanguageIsolation ==
    (/\ h_kind = "text"
     /\ HandlerOver
     /\ Len(h_targets) = 3
     /\ FailedTranslations = {2}
     /\ mtLog[2].to = Trim(h_targets[2]))
    => /\ Len(mtLog) = 3
       /\ \A k \in 1..3 : mtLog[k].to = Trim(h_targets[k])
       /\ \E r \in TranslationReplies :
            \E a, c \in 1..Len(sent[r].langs) :
               /\ a < c
               /\ sent[r].langs[a] = Trim(h_targets[1])
               /\ sent[r].langs[c] = Trim(h_targets[3])

C6_TextMessagePart ==
    (h_kind = "text" /\ h_mode = <<"text">>) => ttsLog = <<>>

(***************************************************************************)
(* Properties of the queues                                                *)
(***************************************************************************)

Terminal(j) == q_state[j] \in {"completed", "failed"}

\* The result or error messages the client has been sent for job j.
Outcomes(j) == SelectSeq(q_out[j], LAMBDA msg : msg.type # "job_submitted")

TwoRetryable == <<"retryable", "retryable">>

C8_NonRetryableDeadLetters ==
    \A j \in Jobs :
       (q_errors[j] # <<>> /\ q_errors[j][1] = "non_retryable")
       => (q_state[j] = "failed" /\ q_runs[j] = 1)

\* The backlog limit C9 speaks of, set below the number of jobs submitted so
\* that the backlog can reach it.
BacklogLimit == MaxJobs - 1

\* C9: the number of waiting jobs of a queue never exceeds the backlog
\* limit: an add() at the limit is refused.
C9_BacklogBounded == \A name \in QueueNames : Len(q_wait[name]) <= BacklogLimit

\* What C10 says of a state: the client has been sent at most one outcome
\* for a translation job, only once the job is completed or failed; it is
\* the result when the job completed, and when the job failed it is the
\* last error, after the third failed attempt.
OneOutcome(j) ==
    /\ Len(Outcomes(j)) <= 1
    /\ Outcomes(j) # <<>>
         => /\ Terminal(j)
            /\ q_state[j] = "completed"
                 => Outcomes(j)[1] = WsMsg("translation_result", ReturnValue("translate"))
            /\ q_state[j] = "failed"
                 => /\ q_runs[j] = attempts
                    /\ Len(q_errors[j]) = attempts
                    /\ Outcomes(j)[1] = WsMsg("translation_error", q_errors[j][attempts])

\* What C10 says of a step: once a job is completed or failed it stays so
\* and no further attempt of it is started.
NoAttemptAfterEnd ==
    \A j \in Jobs :
       Terminal(j) => (q_state'[j] = q_state[j] /\ q_runs'[j] = q_runs[j])

\* C10: every job added to the translation queue is eventually completed or
\* failed and its outcome sent to the waiting client; the client is sent
\* exactly one outcome, the result if an attempt succeeded and otherwise the
\* last error after the third failed attempt; and after the job's end no
\* further attempt is started.
C10_EveryJobEndsWithOneOutcome ==
    /\ \A j \in Jobs : (q_name[j] = "translate") ~> Terminal(j)
    /\ \A j \in Jobs :
          (q_name[j] = "translate" /\ Awaited(j)) ~> (Terminal(j) /\ Len(Outcomes(j)) = 1)
    /\ [](\A j \in Jobs : q_name[j] = "translate" => OneOutcome(j))
    /\ [][NoAttemptAfterEnd]_vars

\* A translation job has failed three times and the client has its last error.
C10_Witness ==
    \E j \in Jobs :
       /\ q_name[j] = "translate"
       /\ q_state[j] = "failed"
       /\ q_runs[j] = attempts
       /\ Outcomes(j) = <<WsMsg("translation_error", q_errors[j][attempts])>>

(***************************************************************************)
(* Properties of concurrent requests                                       *)
(***************************************************************************)

\* C11: the translation and synthesis calls awaited at the external engines
\* at one moment are never more than the queue workers, because every such
\* call runs as a queue job of its own.
C11_CallsWithinWorkerPool == Cardinality(InFlight) <= Workers

(***************************************************************************)
(* Properties of the pipeline's inputs                                     *)
(***************************************************************************)

HintGiven == p_hint # "" /\ p_pc # "idle"

\* C12: when the caller passes a source language, the candidate loop is
\* never entered and the transcription engine is called exactly once, with
\* the locale code of that language; when that call fails the run fails,
\* with no further transcription call and no translation or synthesis call.
C12_HintTranscribedOnce ==
    HintGiven
    => /\ d_pc = "idle"
       /\ p_pc = "hint" => sttLog = <<>>
       /\ p_pc # "hint"
            => /\ Len(sttLog) = 1
               /\ sttLog[1].lang = convertToBCP47(p_hint)
               /\ ~sttLog[1].out.ok
                    => /\ p_pc = "failed"
                       /\ p_ret = <<PipelineError("STT Service Error")>>
                       /\ mtLog = <<>>
                       /\ ttsLog = <<>>

\* The hint 'en' became 'en-US', and the one call failed.
C12_Witness ==
    /\ p_hint = "en"
    /\ p_pc = "failed"
    /\ Len(sttLog) = 1
    /\ sttLog[1].lang = "en-US"
    /\ ~sttLog[1].out.ok
    /\ mtLog = <<>>

\* C13: for an empty audio buffer no call to the transcription engine is
\* made: the detector and the pipeline fail before any.
C13_EmptyAudioFailsFast == audio = 0 => sttLog = <<>>

(***************************************************************************)
(* Further properties of the webhook handlers                              *)
(***************************************************************************)

NoRepeats(list) == \A a, b \in 1..Len(list) : a # b => list[a] # list[b]

\* C14: while a message is handled no target language is translated twice,
\* and the reply lists each language once: a language that is stored twice
\* for the user counts once.
C14_OneEntryPerDistinctLanguage ==
    h_kind \in {"text", "audio"}
    => /\ NoRepeats([k \in 1..Len(mtLog) |-> mtLog[k].to])
       /\ \A r \in TranslationReplies : NoRepeats(sent[r].langs)

(***************************************************************************)
(* Properties of the verification endpoint                                 *)
(***************************************************************************)

Answered == v_res # <<>>

\* The parameter was sent with the request, whatever its value.
Present(param) == param # Undef

TokenMatches(query) == query.mode = S(<<"subscribe">>) /\ query.token = v_config

\* C15 as stated, a parameter counting as missing when the request does not
\* carry it: 200 with the challenge exactly when mode is 'subscribe' and the
\* token is the configured one, 403 when both are present and that fails,
\* 400 when one is missing.
C15_AsStated ==
    Answered
    => LET query == v_query[1]
           res == v_res[1]
           both == Present(query.mode) /\ Present(query.token)
       IN  /\ res.status = 200 <=> (both /\ TokenMatches(query))
           /\ res.status = 403 <=> (both /\ ~TokenMatches(query))
           /\ res.status = 400 <=> ~both

\* C15: the answer is 200 with the challenge exactly when mode is
\* 'subscribe' and the token equals the configured token; it is 403 when
\* mode and token are both given and not empty but that fails; it is 400
\* when mode or token is missing or empty.  Exactly one of the three applies.
C15_VerificationAnswers ==
    Answered
    => LET query == v_query[1]
           res == v_res[1]
           both == Truthy(query.mode) /\ Truthy(query.token)
       IN  /\ res.status \in {200, 403, 400}
           /\ res.status = 200 <=> (both /\ TokenMatches(query))
           /\ res.status = 200 => res.body = query.challenge
           /\ res.status = 403 <=> (both /\ ~TokenMatches(query))
           /\ res.status = 400 <=> ~both

\* A request with the right token and the wrong mode was refused.
C15_Witness ==
    /\ Answered
    /\ v_query[1].mode = S(<<"unsubscribe">>)
    /\ v_query[1].token = v_config
    /\ v_res[1].status = 403

(***************************************************************************)
(* Properties of the preferences service                                   *)
(***************************************************************************)

LastCall(op) == s_call # <<>> /\ s_call[1].op = op /\ s_ret # <<>>

\* C16: setResponseMode called with a mode other than 'text', 'voice' and
\* 'both' rejects with an 'Invalid response mode' error.
C16_InvalidModeRejects ==
    (LastCall("setResponseMode") /\ s_call[1].arg \notin ResponseModes)
        => (s_ret[1].threw /\ s_ret[1].value = "Invalid response mode")

\* C17 as stated: once a setter has returned true and nothing was written
\* or expired since, any getPreferences call returns the stored value.
C17_AsStated ==
    /\ (LastCall("setSourceLanguage") /\ s_ret[1].value)
           => \A readOk \in BOOLEAN :
                getPreferences(prefs[s_call[1].user], readOk).sourceLanguage
                    = S(s_call[1].arg)
    /\ (LastCall("setTargetLanguages") /\ s_ret[1].value)
           => \A readOk \in BOOLEAN :
                getPreferences(prefs[s_call[1].user], readOk).targetLanguages
                    = S(Join(s_call[1].arg, <<",">>))
    /\ (LastCall("setResponseMode") /\ ~s_ret[1].threw /\ s_ret[1].value)
           => \A readOk \in BOOLEAN :
                getPreferences(prefs[s_call[1].user], readOk).responseMode
                    = S(s_call[1].arg)

\* C17: once a setter has returned true and nothing was written or expired
\* since, a getPreferences call whose store read succeeds returns the stored
\* value: the source language, the target languages joined with ',', the
\* response mode.
C17_RoundTrip ==
    /\ (LastCall("setSourceLanguage") /\ s_ret[1].value)
           => getPreferences(prefs[s_call[1].user], TRUE).sourceLanguage
                  = S(s_call[1].arg)
    /\ (LastCall("setTargetLanguages") /\ s_ret[1].value)
           => getPreferences(prefs[s_call[1].user], TRUE).targetLanguages
                  = S(Join(s_call[1].arg, <<",">>))
    /\ (LastCall("setResponseMode") /\ ~s_ret[1].threw /\ s_ret[1].value)
           => getPreferences(prefs[s_call[1].user], TRUE).responseMode
                  = S(s_call[1].arg)

C17_Witness ==
    /\ LastCall("setTargetLanguages")
    /\ s_call[1].arg = <<<<"es">>, <<"fr">>, <<"de">>>>
    /\ s_ret[1].value
    /\ prefs[s_call[1].user].responseMode = S(<<"voice">>)
    /\ prefs[s_call[1].user].sourceLanguage = S(<<"es">>)

\* C18: for a user with nothing stored, and when the store cannot be read,
\* getPreferences returns sourceLanguage 'auto', targetLanguages 'en' and
\* responseMode 'text', without throwing.
C18_DefaultsAreStrings ==
    (LastCall("getPreferences")
        /\ (prefs[s_call[1].user] = EmptyHash \/ ~s_call[1].arg))
        => /\ ~s_ret[1].threw
           /\ s_ret[1].value.sourceLanguage = S(<<"auto">>)
           /\ s_ret[1].value.targetLanguages = S(<<"en">>)
           /\ s_ret[1].value.responseMode = S(<<"text">>)

(***************************************************************************)
(* Properties of the commands                                              *)
(***************************************************************************)

\* The 2-character arguments of a command text, in order.
CodesOf(body) == SelectSeq(Tail(Split(body, " ")), LAMBDA t : StrLen(t) = 2)

\* The message just handled is '!lang c1 c2 ...' with a 2-character argument.
LangCommandHandled ==
    /\ h_kind = "command"
    /\ h_body # <<>>
    /\ ToLowerCase(Split(h_body, " ")[1]) = <<"!lang">>
    /\ CodesOf(h_body) # <<>>

TargetsStored == prefs[h_user].targetLanguages = S(Join(CodesOf(h_body), <<",">>))
TargetsSetReply == Msg("targets_set", <<Join(CodesOf(h_body), <<",", " ">>)>>)

\* A '!' message is handled as a command only: no translation, synthesis
\* or transcription call is made for it.
CommandsNeverTranslate ==
    (h_body # <<>> /\ StartsWithBang(h_body))
        => (h_kind = "command" /\ h_pc = "done" /\ mtLog = <<>> /\ ttsLog = <<>>)

\* With the store taking both commands, handleCommand stores the
\* 2-character arguments of '!lang' and answers with them, whatever is
\* stored before.
LangCommandSucceeds ==
    \A u \in Users, body \in CommandBodies, readOk \in BOOLEAN :
        (ToLowerCase(Split(body, " ")[1]) = <<"!lang">> /\ CodesOf(body) # <<>>)
            => LET eff == CommandEffect(prefs[u], body, "ok", readOk)
               IN  /\ ~eff.throws
                   /\ eff.reply = Msg("targets_set", <<Join(CodesOf(body), <<",", " ">>)>>)
                   /\ eff.hash = [prefs[u] EXCEPT
                                    !.targetLanguages = S(Join(CodesOf(body), <<",">>))]

\* The key of the sender has not expired since the command was handled.
NotExpiredSince == prefs[h_user] # EmptyHash

\* C19 as stated: every '!lang c1 c2 ...' with a 2-character argument stores
\* its 2-character arguments and replies 'Target languages set to: ...'.
C19_AsStated ==
    /\ CommandsNeverTranslate
    /\ LangCommandHandled
          => /\ sent = <<TargetsSetReply>>
             /\ NotExpiredSince => TargetsStored

\* C19: '!lang c1 c2 ...' with a 2-character argument ends in one of four
\* ways: the reply 'Target languages set to: ' with the 2-character
\* arguments joined with ', ', sent only when exactly these arguments are
\* stored in order; the reply 'Error setting language preferences' when the
\* store failed; the apology, or nothing, when the reply could not be sent.
\* When the store takes both commands, handleCommand stores the arguments
\* and answers with the first reply.  A '!' message never causes a
\* translation call.
C19_LangCommand ==
    /\ CommandsNeverTranslate
    /\ LangCommandSucceeds
    /\ LangCommandHandled
          => /\ sent \in {<<TargetsSetReply>>, <<Msg("set_error", <<>>)>>, <<Apology>>, <<>>}
             /\ (sent = <<TargetsSetReply>> /\ NotExpiredSince) => TargetsStored

C19_Witness ==
    /\ LangCommandHandled
    /\ h_body = Words("!lang", <<"es", "x", "fr">>)
    /\ sent = <<TargetsSetReply>>
    /\ TargetsStored
    /\ prefs[h_user].targetLanguages = S(<<"es", ",", "fr">>)

(***************************************************************************)
(* Properties of the pipeline's error handling                             *)
(***************************************************************************)

\* The transcription step threw: the explicit-hint call failed, or the
\* detection ended without a result.
TranscriptionFailed ==
    \/ d_pc = "idle" /\ Len(sttLog) = 1 /\ ~sttLog[1].out.ok
    \/ d_pc = "failed"

\* The error has reached the catch of processAudioTranslation.
InCatch == p_pc # "detect"

PipelineRejected ==
    /\ p_pc = "failed"
    /\ p_ret = <<PipelineError(p_ret[1].cause)>>
    /\ p_ret[1].error = "Audio Processing Pipeline Error"

\* C20: a failure of the transcription step, of translateText or of
\* synthesizeText makes processAudioTranslation reject with an 'Audio
\* Processing Pipeline Error'; no later step runs after the failure, and a
\* result is returned only when no step failed.
C20_AnyFailureRejects ==
    /\ ((TranscriptionFailed \/ TranslationFailed \/ SynthesisFailed) /\ InCatch)
          => PipelineRejected
    /\ TranscriptionFailed => (mtLog = <<>> /\ ttsLog = <<>>)
    /\ TranslationFailed => ttsLog = <<>>
    /\ (p_ret # <<>> /\ ~PipelineRejected)
          => /\ p_pc = "done"
             /\ p_ret = <<PipelineResult(p_source, p_target)>>
             /\ ~(TranscriptionFailed \/ TranslationFailed \/ SynthesisFailed)
    /\ p_pc \in {"done", "failed"} <=> p_ret # <<>>

C20_Witness ==
    /\ SynthesisFailed
    /\ Len(mtLog) = 1 /\ mtLog[1].ok
    /\ p_ret = <<PipelineError("TTS Service Error")>>
    /\ p_pc = "failed"

(***************************************************************************)
(* Properties of the POST request                                          *)
(***************************************************************************)

Apologies == {k \in 1..Len(sent) : sent[k] = Apology}

\* Every message of the request so far had a contacts entry.
WithContacts == h_kind # "nocontacts"

StageOf(pc) ==
    CASE pc = "idle" -> 0
      [] pc \in {"hint", "detect"} -> 1
      [] pc = "translate" -> 2
      [] pc = "tts" -> 3
      [] pc = "done" -> 4
      [] pc = "failed" -> 5

\* A step stays in its stage or goes forward, and only the transcription
\* stage takes more than one step; from a stage the run goes to the next one
\* or fails.
ForwardOnly ==
    /\ StageOf(p_pc') >= StageOf(p_pc)
    /\ (StageOf(p_pc') = StageOf(p_pc) /\ p_pc' # "detect") => UNCHANGED <<mtLog, ttsLog, p_ret>>
    /\ StageOf(p_pc') > StageOf(p_pc) =>
          (StageOf(p_pc') = StageOf(p_pc) + 1 \/ p_pc' = "failed")
    /\ p_pc \in {"done", "failed"} => UNCHANGED <<p_pc, sttLog, mtLog, ttsLog, p_ret>>

CallsInOrder ==
    /\ Len(mtLog) <= 1 /\ Len(ttsLog) <= 1
    /\ StageOf(p_pc) <= 2 => (mtLog = <<>> /\ ttsLog = <<>>)
    /\ mtLog # <<>> => (TranscriptionOk /\ StageOf(p_pc) >= 3)
    /\ StageOf(p_pc) = 3 => ttsLog = <<>>
    /\ ttsLog # <<>> => (mtLog # <<>> /\ mtLog[1].ok /\ StageOf(p_pc) >= 4)
    /\ (p_pc = "failed" /\ ~TranscriptionOk) => (mtLog = <<>> /\ ttsLog = <<>>)
    /\ p_pc = "done" => (TranscriptionOk /\ Len(mtLog) = 1 /\ Len(ttsLog) = 1)

\* C22: a pipeline run goes through transcription, translation, synthesis
\* and the result in this order and never backward; no translation call is
\* made before the transcription has succeeded, no synthesis call before the
\* translation has returned, no stage is entered twice, and a failed
\* transcription ends the run without a translation or synthesis call.
C22_StagesForwardOnly == []CallsInOrder /\ [][ForwardOnly]_vars

C22_Witness ==
    /\ p_pc = "done"
    /\ d_pc = "done"
    /\ Len(sttLog) >= 2
    /\ Len(mtLog) = 1 /\ Len(ttsLog) = 1

(***************************************************************************)
(* Properties of the voice replies                                         *)
(***************************************************************************)

\* A synthesis call of the message failed, or a voice reply could not be
\* delivered and the notice took its place.
VoiceFailures ==
    {k \in 1..Len(ttsLog) : ~ttsLog[k].ok}
       \cup {k \in 1..Len(sent) : sent[k].kind = "voice_notice"}

Candidates == Len(commonLanguages)

\* The k-th call of a detection is the one for the k-th candidate, and the
\* call after the last candidate is the fallback.
AttemptsInListOrder ==
    d_pc # "idle" =>
        /\ Len(sttLog) <= Candidates + 1
        /\ \A k \in 1..Len(sttLog) :
             sttLog[k].lang = IF k <= Candidates THEN commonLanguages[k] ELSE "en-US"
        /\ (d_pc = "loop" /\ d_i <= Candidates) => Len(sttLog) = d_i - 1

\* The detection is over only when every candidate has been tried or a
\* candidate answered with a confidence that ends the loop.
EndsOnlyWhenTried ==
    d_pc \in {"done", "failed"} =>
        \/ Len(sttLog) >= Candidates
        \/ \E k \in 1..Len(sttLog) : sttLog[k].out.ok /\ EarlyExit(sttLog[k].out.confidence)

\* A step makes at most one call, and after a call that errored while
\* candidates remain the loop is at the next candidate.
OneAttemptThenNext ==
    /\ Len(sttLog') <= Len(sttLog) + 1
    /\ (d_pc = "loop" /\ d_i < Candidates /\ Len(sttLog') = Len(sttLog) + 1
          /\ ~sttLog'[Len(sttLog')].out.ok)
         => (d_pc' = "loop" /\ d_i' = d_i + 1)
    /\ (d_pc = "loop" /\ d_i <= Candidates) => d_pc' = "loop"

\* C24: the detection tries its candidates one call per step in list order,
\* and a call that errors while candidates remain is followed by the call
\* for the next candidate: an engine error never ends the detection early.
C24_SequentialAttempts ==
    /\ []AttemptsInListOrder
    /\ []EndsOnlyWhenTried
    /\ [][OneAttemptThenNext]_vars

C24_Witness ==
    /\ d_pc = "done"
    /\ Len(sttLog) = 3
    /\ ~sttLog[1].out.ok /\ ~sttLog[2].out.ok
    /\ sttLog[3] = [lang |-> "fr-FR", out |-> Answer(90)]

(***************************************************************************)
(* Properties of what the setters leave alone                              *)
(***************************************************************************)

Fields == {"sourceLanguage", "targetLanguages", "responseMode"}

\* The field a setter writes.
FieldOf(op) ==
    CASE op = "setSourceLanguage" -> "sourceLanguage"
      [] op = "setTargetLanguages" -> "targetLanguages"
      [] op = "setResponseMode" -> "responseMode"

\* A call of a setter changes nothing but its own field of its own user, and
\* nothing at all when the mode is invalid.
SetterFrame ==
    (s_call' # s_call /\ s_call'[1].op \in {"setSourceLanguage", "setTargetLanguages", "setResponseMode"})
    => LET call == s_call'[1]
       IN  /\ \A u \in Users \ {call.user} : prefs'[u] = prefs[u]
           /\ \A f \in Fields \ {FieldOf(call.op)} :
                prefs'[call.user][f] = prefs[call.user][f]
           /\ (call.op = "setResponseMode" /\ call.arg \notin ResponseModes)
                 => prefs' = prefs

\* Command texts whose arguments are not valid.
InvalidCommands ==
    {Words("!lang", <<"x">>), Words("!srclang", <<"x">>), Words("!response", <<"loud">>)}

\* handleCommand with invalid arguments stores nothing, whatever is stored
\* and whatever the store does.
InvalidCommandsStoreNothing ==
    \A u \in Users, body \in InvalidCommands, redis \in RedisOutcomes, readOk \in BOOLEAN :
        CommandEffect(prefs[u], body, redis, readOk).hash = prefs[u]

\* C25: a setter changes only its own field of its own user's stored
\* preferences; the user's other two fields and the other users'
\* preferences stay as they are, and setResponseMode with an invalid mode,
\* like '!response' or '!lang' with invalid arguments, changes nothing.
C25_SettersChangeOwnFieldOnly ==
    /\ []InvalidCommandsStoreNothing
    /\ [][SetterFrame]_vars

C25_Witness ==
    /\ LastCall("setResponseMode") /\ s_call[1].user = "u1" /\ s_ret[1].value
    /\ prefs["u1"] = [sourceLanguage |-> S(<<"es">>), targetLanguages |-> S(<<"fr", ",", "es">>),
                      responseMode |-> S(<<"both">>)]
    /\ prefs["u2"] = [sourceLanguage |-> S(<<"en">>), targetLanguages |-> S(<<"es">>),
                      responseMode |-> S(<<"voice">>)]

(***************************************************************************)
(* Properties of the handlers for users on the defaults                    *)
(***************************************************************************)

\* A step in which a handler takes a text message, or a voice note it could
\* download, of a user who has nothing stored.
ReceivesOnDefaults ==
    /\ CanReceive
    /\ h_kind' \in {"text", "audio"}
    /\ h_pc' \in {"t_translate", "a_stt", "catch"}
    /\ h_kind' = "audio" => h_mode' # <<>>
    /\ prefs[h_user'] = EmptyHash

\* C26: a text message or voice note of a user with nothing stored is taken
\* on for translation into the default target language 'en'; the handler
\* does not go to its apology.
C26_DefaultsTranslateToEnglish ==
    [][ReceivesOnDefaults => (h_pc' # "catch" /\ h_targets' = <<<<"en">>>>)]_vars

(***************************************************************************)
(* Properties of '!lang' without arguments                                 *)
(***************************************************************************)

\* The target languages a user currently has: the stored ones, or the
\* default.
CurrentTargets(hash) ==
    IF hash.targetLanguages.type = "string"
      THEN Split(hash.targetLanguages.v, ",")
      ELSE <<<<"en">>>>

\* C27: whatever the sender has stored, handleCommand answers '!lang'
\* without arguments with the current settings, and does not throw.
C27_ShowsCurrentSettings ==
    \A u \in Senders :
        LET eff == CommandEffect(prefs[u], <<"!lang">>, "ok", TRUE)
        IN  /\ ~eff.throws
            /\ eff.reply = Msg("current_settings", CurrentTargets(prefs[u]))
            /\ eff.hash = prefs[u]

(***************************************************************************)
(* Properties of the messages of the WebSocket interface                   *)
(***************************************************************************)

ResultType(name) == IF name = "translate" THEN "translation_result" ELSE "audio_translation_result"
ErrorType(name) == IF name = "translate" THEN "translation_error" ELSE "audio_translation_error"

\* C28: for every job the queue has accepted the client is first sent
\* 'job_submitted', and after it at most one further message, which is the
\* result or the error message of the job's kind and is sent only when the
\* job is completed or failed: never a result and an error both.
C28_SubmittedThenOneOutcome ==
    \A j \in Jobs :
       q_state[j] # "absent"
       => /\ q_out[j] # <<>>
          /\ q_out[j][1].type = "job_submitted"
          /\ Len(q_out[j]) <= 2
          /\ Len(q_out[j]) = 2
               => /\ Terminal(j)
                  /\ q_out[j][2].type \in {ResultType(q_name[j]), ErrorType(q_name[j])}
                  /\ q_out[j][2].type = ResultType(q_name[j]) => q_state[j] = "completed"

(***************************************************************************)
(* Properties of the recorder                                              *)
(***************************************************************************)

\* C29: once the button has been released and no microphone request is
\* outstanding, the recorder is not recording: isRecording is false, no
\* MediaRecorder is recording and no stream has live tracks.
C29_ReleaseEndsRecording ==
    (~held /\ pendingRequests = 0)
    => (~isRecording /\ activeRecorders = {} /\ liveStreams = {})

(***************************************************************************)
(* Properties of getQueueStats                                             *)
(***************************************************************************)

\* The count reads of a returned getQueueStats call that counted job j.
ReadsCounting(j) == {i \in 1..Len(st_reads) : j \in st_reads[i]}

\* C30: when a getQueueStats call has returned, every job that was in a
\* queue from the beginning of the call has been counted by exactly one of
\* the call's count reads: not by two, and not by none.
C30_ConsistentSnapshot ==
    st_ret = <<"resolved">>
    => \A j \in st_start : Cardinality(ReadsCounting(j)) = 1

=============================================================================
